---- MODULE Spec2Model ----
(***************************************************************************)
(* State-machine model of the example programs of python-unit-tests:       *)
(* UserManager, DataBase and its yield fixture, is_prime, save_user,       *)
(* the HTTP get_weather, and the Flask users API with its test module.     *)
(* Each example is an independent program: it has its own variables, its   *)
(* own next-state relation and its own specification, and leaves the       *)
(* variables of the other examples untouched.                              *)
(***************************************************************************)
EXTENDS Integers, Sequences, FiniteSets, TLC

VARIABLES
    um_users,    \* UserManager.users: dict username -> email
    um_last,     \* the last UserManager call and what it returned or raised
    um_tick,     \* flips on every UserManager call
    db_data,     \* DataBase.data: dict user_id -> name
    db_last,     \* the last DataBase call and what it returned or raised
    db_tick,     \* flips on every DataBase call
    fx_store,    \* fx_store[i]: data of the DataBase the db fixture built for test i
    fx_phase,    \* where the current test is in the fixture lifecycle
    fx_ops,      \* DataBase operations the current test body has made
    fx_body,     \* how the current test body ended
    fx_teardowns,\* fx_teardowns[i]: times the teardown step ran for test i
    pr_n,        \* is_prime: the argument n
    pr_i,        \* is_prime: the loop variable i
    pr_pc,       \* is_prime: position in the function
    pr_ret,      \* is_prime: the returned value
    sv_pc,       \* save_user: the next statement
    sv_args,     \* save_user: (name, age)
    sv_fail,     \* the database operation configured to fail, and its error
    sv_log,      \* calls recorded, in order
    sv_out,      \* how save_user ended
    gw_pc,       \* get_weather: the next statement
    gw_city,     \* get_weather: the argument
    gw_resp,     \* the response requests.get is configured to return
    gw_gets,     \* URLs passed to requests.get, in order
    gw_json,     \* number of response.json() calls
    gw_out,      \* how get_weather ended
    api_users,   \* api.users: the module-level dict id -> user record
    api_req,     \* the last request
    api_resp,    \* the last response: status and JSON body
    api_tick,    \* flips on every request
    api_posted,  \* bodies of the 201 responses, in order
    t_cur,       \* the test of test_api.py that is running
    t_pc,        \* its next statement
    t_outcome    \* outcome of every test that ran

\* Python's None.
None == "None"

\* d[k] = v on a Python dict (a function with a finite domain).
DictSet(d, k, v) == [x \in DOMAIN d \cup {k} |-> IF x = k THEN v ELSE d[x]]

\* del d[k]
DictDel(d, k) == [x \in DOMAIN d \ {k} |-> d[x]]

\* d.get(k, None)
DictGet(d, k) == IF k \in DOMAIN d THEN d[k] ELSE None

\* {}
EmptyDict == [x \in {} |-> None]

-----------------------------------------------------------------------------
(* 2-fixtures-setup-example/main.py: UserManager *)

Usernames == {"john_doe", "jane_doe", "nonexistent"}
Emails == {"john@example.com", "another@example.com"}

umVars == <<um_users, um_last, um_tick>>

\* UserManager.__init__
UmInit ==
    /\ um_users = EmptyDict
    /\ um_last = [op |-> "init", username |-> None, email |-> None, result |-> None]
    /\ um_tick = FALSE

\* A faulty add_user that stores the new email before it checks for a duplicate.
UmAddUserOverwrites(username, email) ==
    /\ um_tick' = ~um_tick
    /\ um_users' = DictSet(um_users, username, email)
    /\ um_last' = [op |-> "add_user", username |-> username, email |-> email,
                   result |-> IF username \in DOMAIN um_users
                              THEN "ValueError: User already exists" ELSE "True"]

\* UserManager.add_user(username, email)
UmAddUser(username, email) ==
    /\ um_tick' = ~um_tick
    /\ IF username \in DOMAIN um_users
       THEN /\ um_users' = um_users
            /\ um_last' = [op |-> "add_user", username |-> username, email |-> email,
                           result |-> "ValueError: User already exists"]
       ELSE /\ um_users' = DictSet(um_users, username, email)
            /\ um_last' = [op |-> "add_user", username |-> username, email |-> email,
                           result |-> "True"]

\* UserManager.__getitem__(username)
UmGetItem(username) ==
    /\ um_tick' = ~um_tick
    /\ um_users' = um_users
    /\ um_last' = [op |-> "getitem", username |-> username, email |-> None,
                   result |-> DictGet(um_users, username)]

-----------------------------------------------------------------------------
(* 3-fixtures-teardown/db.py: DataBase *)

UserIds == {1, 2, 3}
Names == {"Alice", "Bob"}

dbVars == <<db_data, db_last, db_tick>>

NoRaise == "ok"

\* DataBase.add_user(user_id, name) on data: the data afterwards, and the error raised.
DataBase_add_user(data, user_id, name) ==
    IF user_id \in DOMAIN data
    THEN [data |-> data, raised |-> "ValueError: User ID already exists", value |-> None]
    ELSE [data |-> DictSet(data, user_id, name), raised |-> NoRaise, value |-> None]

\* DataBase.__getitem__(user_id)
DataBase_getitem(data, user_id) ==
    [data |-> data, raised |-> NoRaise, value |-> DictGet(data, user_id)]

\* A faulty __delitem__ that clears the whole dict (data.clear() for del data[user_id]).
DataBase_delitem_clears(data, user_id) ==
    IF user_id \in DOMAIN data
    THEN [data |-> EmptyDict, raised |-> NoRaise, value |-> None]
    ELSE [data |-> data, raised |-> "KeyError: User ID not found", value |-> None]

\* DataBase.__delitem__(user_id)
DataBase_delitem(data, user_id) ==
    IF user_id \in DOMAIN data
    THEN [data |-> DictDel(data, user_id), raised |-> NoRaise, value |-> None]
    ELSE [data |-> data, raised |-> "KeyError: User ID not found", value |-> None]

\* The effect of one DataBase operation.
DataBase_apply(data, op, user_id, name) ==
    CASE op = "add_user" -> DataBase_add_user(data, user_id, name)
      [] op = "getitem" -> DataBase_getitem(data, user_id)
      [] op = "delitem" -> DataBase_delitem(data, user_id)

\* DataBase.__init__
DbInit ==
    /\ db_data = EmptyDict
    /\ db_last = [op |-> "init", user_id |-> 0, name |-> None, raised |-> NoRaise,
                  value |-> None]
    /\ db_tick = FALSE

DbCall(op, user_id, name) ==
    LET r == DataBase_apply(db_data, op, user_id, name) IN
    /\ db_tick' = ~db_tick
    /\ db_data' = r.data
    /\ db_last' = [op |-> op, user_id |-> user_id, name |-> name, raised |-> r.raised,
                   value |-> r.value]

\* db.add_user(user_id, name)
DbAddUser(user_id, name) == DbCall("add_user", user_id, name)

\* db[user_id]
DbGetItem(user_id) == DbCall("getitem", user_id, None)

\* del db[user_id]
DbDelItem(user_id) == DbCall("delitem", user_id, None)

-----------------------------------------------------------------------------
(* 3-fixtures-teardown/test_db.py: the db yield fixture, run once per test *)

\* Tests run in one session, and DataBase operations one test body makes.
MaxTests == 3
MaxBodyOps == 2

fxVars == <<fx_store, fx_phase, fx_ops, fx_body, fx_teardowns>>

DbOps == {"add_user", "getitem", "delitem"}

FxInit ==
    /\ fx_store = <<>>
    /\ fx_phase = "idle"
    /\ fx_ops = 0
    /\ fx_body = "none"
    /\ fx_teardowns = <<>>

\* Setup, up to the yield: database = DataBase(); yield database
FxSetup ==
    /\ fx_phase \in {"idle", "done"}
    /\ Len(fx_store) < MaxTests
    /\ fx_store' = Append(fx_store, EmptyDict)
    /\ fx_teardowns' = Append(fx_teardowns, 0)
    /\ fx_phase' = "ready"
    /\ fx_ops' = 0
    /\ fx_body' = "running"

\* One statement of a test body on the yielded database: the operation returns,
\* or raises inside a pytest.raises block, and the body goes on.
FxBodyOp(op, user_id, name) ==
    /\ fx_phase = "ready"
    /\ fx_ops < MaxBodyOps
    /\ fx_store' = [fx_store EXCEPT
                      ![Len(fx_store)] = DataBase_apply(@, op, user_id, name).data]
    /\ fx_ops' = fx_ops + 1
    /\ UNCHANGED <<fx_phase, fx_body, fx_teardowns>>

\* The test body returns normally.
FxBodyReturn ==
    /\ fx_phase = "ready"
    /\ fx_phase' = "body_done"
    /\ fx_body' = "returned"
    /\ UNCHANGED <<fx_store, fx_ops, fx_teardowns>>

\* The test body raises: a failed assert, or an error of an operation outside
\* pytest.raises (the operation that raises leaves the data as it was).
FxBodyRaise ==
    /\ fx_phase = "ready"
    /\ fx_phase' = "body_done"
    /\ fx_body' = "raised"
    /\ UNCHANGED <<fx_store, fx_ops, fx_teardowns>>

\* A faulty lifecycle that resumes the fixture only after a body that returned.
FxTeardownOnlyOnSuccess ==
    /\ fx_phase = "body_done"
    /\ fx_phase' = "done"
    /\ IF fx_body = "returned"
       THEN /\ fx_store' = [fx_store EXCEPT ![Len(fx_store)] = EmptyDict]
            /\ fx_teardowns' = [fx_teardowns EXCEPT ![Len(fx_teardowns)] = @ + 1]
       ELSE UNCHANGED <<fx_store, fx_teardowns>>
    /\ UNCHANGED <<fx_ops, fx_body>>

\* Teardown, after the yield: database.data.clear()
FxTeardown ==
    /\ fx_phase = "body_done"
    /\ fx_phase' = "done"
    /\ fx_store' = [fx_store EXCEPT ![Len(fx_store)] = EmptyDict]
    /\ fx_teardowns' = [fx_teardowns EXCEPT ![Len(fx_teardowns)] = @ + 1]
    /\ UNCHANGED <<fx_ops, fx_body>>

-----------------------------------------------------------------------------
(* 4-parametrized-testing/main.py: is_prime *)

\* is_prime is called with n in -NegN .. MaxN.
MaxN == 30
NegN == 3

prVars == <<pr_n, pr_i, pr_pc, pr_ret>>

\* int(n**0.5) for n >= 0: the float square root truncated, which for these n is
\* the integer part of the square root.
IntSqrt(n) == CHOOSE r \in 0..n : r * r <= n /\ (r + 1) * (r + 1) > n

\* A faulty stop that forgets the + 1: range(2, int(n**0.5))
RangeStopNoPlusOne(n) == IntSqrt(n)

\* The stop of range(2, int(n**0.5) + 1)
RangeStop(n) == IntSqrt(n) + 1

PrInit ==
    /\ pr_n = 0
    /\ pr_i = 0
    /\ pr_pc = "idle"
    /\ pr_ret = FALSE

\* is_prime(n) is called.
PrCall(n) ==
    /\ pr_pc \in {"idle", "done"}
    /\ pr_n' = n
    /\ pr_i' = 0
    /\ pr_ret' = FALSE
    /\ pr_pc' = "check"

\* if n <= 1: return False
PrCheck ==
    /\ pr_pc = "check"
    /\ IF pr_n <= 1
       THEN /\ pr_ret' = FALSE
            /\ pr_pc' = "done"
            /\ pr_i' = pr_i
       ELSE /\ pr_i' = 2
            /\ pr_pc' = "loop"
            /\ pr_ret' = pr_ret
    /\ pr_n' = pr_n

\* for i in range(2, int(n**0.5) + 1): if n % i == 0: return False
\* and, once the range is exhausted, return True
PrLoop ==
    /\ pr_pc = "loop"
    /\ IF pr_i < RangeStop(pr_n)
       THEN IF pr_n % pr_i = 0
            THEN /\ pr_ret' = FALSE
                 /\ pr_pc' = "done"
                 /\ pr_i' = pr_i
            ELSE /\ pr_i' = pr_i + 1
                 /\ UNCHANGED <<pr_ret, pr_pc>>
       ELSE /\ pr_ret' = TRUE
            /\ pr_pc' = "done"
            /\ pr_i' = pr_i
    /\ pr_n' = pr_n

-----------------------------------------------------------------------------
(* 5-mocking/mocking-a-database/db.py: save_user, against a sqlite3 whose     *)
(* operations either return or raise the error they are configured with     *)

SvNames == {"Alice", "Bob", "Carol"}
SvAges == {25, 30}
SvErrors == {"DB write failed", "sqlite3.OperationalError"}
SvOperations == {"connect", "cursor", "execute", "commit", "close"}

InsertSql == "INSERT INTO users (name, age) VALUES (?, ?)"

\* The configurations of the database: no operation fails, or one raises an error.
SvFailures ==
    {[at |-> "none", error |-> None]}
        \cup {[at |-> o, error |-> e] : o \in SvOperations, e \in SvErrors}

svVars == <<sv_pc, sv_args, sv_fail, sv_log, sv_out>>

SvInit ==
    /\ sv_pc = "idle"
    /\ sv_args = [name |-> None, age |-> 0]
    /\ sv_fail = [at |-> "none", error |-> None]
    /\ sv_log = <<>>
    /\ sv_out = [kind |-> "none", error |-> None]

\* save_user(name, age) is called, with fresh recorders.
SvCall(name, age, fail) ==
    /\ sv_pc \in {"idle", "returned", "raised"}
    /\ sv_args' = [name |-> name, age |-> age]
    /\ sv_fail' = fail
    /\ sv_log' = <<>>
    /\ sv_out' = [kind |-> "running", error |-> None]
    /\ sv_pc' = "connect"

\* One call of a database operation: it is recorded, and then either returns, and
\* save_user goes on to its next statement, or raises, and the error leaves save_user.
SvDo(fn, args, next) ==
    /\ sv_log' = Append(sv_log, [fn |-> fn, args |-> args])
    /\ IF sv_fail.at = fn
       THEN /\ sv_pc' = "raised"
            /\ sv_out' = [kind |-> "raised", error |-> sv_fail.error]
       ELSE /\ sv_pc' = next
            /\ sv_out' = IF next = "returned"
                         THEN [kind |-> "returned", error |-> None]
                         ELSE sv_out
    /\ UNCHANGED <<sv_args, sv_fail>>

\* conn = sqlite3.connect("users.db")
SvConnect == sv_pc = "connect" /\ SvDo("connect", <<"users.db">>, "cursor")

\* cursor = conn.cursor()
SvCursor == sv_pc = "cursor" /\ SvDo("cursor", <<>>, "execute")

\* A faulty save_user that closes the connection in a finally block.
SvExecuteThenClose ==
    /\ sv_pc = "execute"
    /\ IF sv_fail.at = "execute"
       THEN /\ sv_log' = sv_log \o
                   <<[fn |-> "execute", args |-> <<InsertSql, <<sv_args.name, sv_args.age>>>>],
                     [fn |-> "close", args |-> <<>>]>>
            /\ sv_pc' = "raised"
            /\ sv_out' = [kind |-> "raised", error |-> sv_fail.error]
            /\ UNCHANGED <<sv_args, sv_fail>>
       ELSE SvDo("execute", <<InsertSql, <<sv_args.name, sv_args.age>>>>, "commit")

\* cursor.execute("INSERT INTO users (name, age) VALUES (?, ?)", (name, age))
SvExecute ==
    /\ sv_pc = "execute"
    /\ SvDo("execute", <<InsertSql, <<sv_args.name, sv_args.age>>>>, "commit")

\* A faulty save_user that closes the connection without committing.
SvCommitMissing == sv_pc = "commit" /\ SvDo("close", <<>>, "returned")

\* conn.commit()
SvCommit == sv_pc = "commit" /\ SvDo("commit", <<>>, "close")

\* conn.close()
SvClose == sv_pc = "close" /\ SvDo("close", <<>>, "returned")

-----------------------------------------------------------------------------
(* 5-mocking/mocking-a-function/main.py: get_weather, against a requests.get *)
(* that returns the response it is configured with                          *)

Cities == {"London", "Paris", "Sao Paulo", ""}
StatusCodes == {200, 201, 404, 500}
WeatherBodies ==
    {[temp |-> 20, condition |-> "Sunny"], [temp |-> 5, condition |-> "Rain"],
     [error |-> "No matching location found."]}

gwVars == <<gw_pc, gw_city, gw_resp, gw_gets, gw_json, gw_out>>

NoValue == EmptyDict

\* A faulty URL that leaves the city out.
WeatherUrlWithoutCity(city) == "http://api.weatherapi.com/v1/"

\* f"http://api.weatherapi.com/v1/{city}"
WeatherUrl(city) == "http://api.weatherapi.com/v1/" \o city

GwInit ==
    /\ gw_pc = "idle"
    /\ gw_city = None
    /\ gw_resp = [status_code |-> 0, body |-> NoValue]
    /\ gw_gets = <<>>
    /\ gw_json = 0
    /\ gw_out = [kind |-> "none", value |-> NoValue, error |-> None]

\* get_weather(city) is called, with a fresh recorder for requests.get.
GwCall(city, resp) ==
    /\ gw_pc \in {"idle", "done"}
    /\ gw_city' = city
    /\ gw_resp' = resp
    /\ gw_gets' = <<>>
    /\ gw_json' = 0
    /\ gw_out' = [kind |-> "running", value |-> NoValue, error |-> None]
    /\ gw_pc' = "get"

\* response = requests.get(f"http://api.weatherapi.com/v1/{city}")
GwGet ==
    /\ gw_pc = "get"
    /\ gw_gets' = Append(gw_gets, WeatherUrl(gw_city))
    /\ gw_pc' = "status"
    /\ UNCHANGED <<gw_city, gw_resp, gw_json, gw_out>>

\* if response.status_code == 200: return response.json()
\* else: raise ValueError("City not found or API error")
GwStatus ==
    /\ gw_pc = "status"
    /\ IF gw_resp.status_code = 200
       THEN /\ gw_json' = gw_json + 1
            /\ gw_out' = [kind |-> "returned", value |-> gw_resp.body, error |-> None]
       ELSE /\ gw_json' = gw_json
            /\ gw_out' = [kind |-> "raised", value |-> NoValue,
                          error |-> "ValueError: City not found or API error"]
    /\ gw_pc' = "done"
    /\ UNCHANGED <<gw_city, gw_resp, gw_gets>>

-----------------------------------------------------------------------------
(* 6-example-testing-an-api/api.py: the Flask users API *)

\* Users the store may hold before valid POSTs stop being explored.
MaxUsers == 3

PostNames == {"John Doe", "Bob Leck"}
PostEmails == {"john@email.com", "bob@test.com"}

\* JSON objects a POST carries: with or without the name and email keys.
Payloads ==
    {EmptyDict}
        \cup {[name |-> n] : n \in PostNames \cup {"Jane Doe"}}
        \cup {[email |-> e] : e \in PostEmails}
        \cup {[name |-> n, email |-> e] : n \in PostNames, e \in PostEmails}

\* What request.get_json() yields: None for a request without a JSON body.
NoJson == [has_json |-> FALSE, json |-> EmptyDict]
Json(p) == [has_json |-> TRUE, json |-> p]
PostData == {NoJson} \cup {Json(p) : p \in Payloads}

\* Ids a GET asks for.
GetIds == 0..(MaxUsers + 1) \cup {999}

apiVars == <<api_users, api_req, api_resp, api_tick, api_posted>>

\* not data or 'name' not in data or 'email' not in data
InvalidInput(data) ==
    \/ ~data.has_json
    \/ DOMAIN data.json = {}
    \/ "name" \notin DOMAIN data.json
    \/ "email" \notin DOMAIN data.json

\* get_user(user_id) on the store users. Every stored record is a non-empty dict,
\* so `if user` is true exactly for the stored ids.
get_user(users, user_id) ==
    IF user_id \in DOMAIN users
    THEN [users |-> users, status |-> 200, body |-> users[user_id]]
    ELSE [users |-> users, status |-> 404, body |-> [error |-> "User not found"]]

\* A faulty add_user that takes an id before it validates the input.
add_user_consumes_id(users, data) ==
    LET user_id == Cardinality(DOMAIN users) + 1 IN
    IF InvalidInput(data)
    THEN [users |-> DictSet(users, user_id, [id |-> user_id, name |-> None, email |-> None]),
          status |-> 400, body |-> [error |-> "Invalid input"]]
    ELSE [users |-> DictSet(users, user_id,
                            [id |-> user_id, name |-> data.json.name,
                             email |-> data.json.email]),
          status |-> 201,
          body |-> [id |-> user_id, name |-> data.json.name, email |-> data.json.email]]

\* A faulty add_user that numbers the users from 0: user_id = len(users)
add_user_from_zero(users, data) ==
    LET user_id == Cardinality(DOMAIN users) IN
    IF InvalidInput(data)
    THEN [users |-> users, status |-> 400, body |-> [error |-> "Invalid input"]]
    ELSE [users |-> DictSet(users, user_id,
                            [id |-> user_id, name |-> data.json.name,
                             email |-> data.json.email]),
          status |-> 201,
          body |-> [id |-> user_id, name |-> data.json.name, email |-> data.json.email]]

\* add_user() on the store users, for a request whose get_json() is data.
add_user(users, data) ==
    LET user_id == Cardinality(DOMAIN users) + 1 IN
    IF InvalidInput(data)
    THEN [users |-> users, status |-> 400, body |-> [error |-> "Invalid input"]]
    ELSE [users |-> DictSet(users, user_id,
                            [id |-> user_id, name |-> data.json.name,
                             email |-> data.json.email]),
          status |-> 201,
          body |-> [id |-> user_id, name |-> data.json.name, email |-> data.json.email]]

PostRequest(data) == [method |-> "POST", user_id |-> 0, data |-> data]
GetRequest(user_id) == [method |-> "GET", user_id |-> user_id, data |-> NoJson]

\* The app routes a request to its view function.
Dispatch(users, req) ==
    IF req.method = "POST" THEN add_user(users, req.data) ELSE get_user(users, req.user_id)

\* users = {} at import
ApiInit ==
    /\ api_users = EmptyDict
    /\ api_req = [method |-> "none", user_id |-> 0, data |-> NoJson]
    /\ api_resp = [status |-> 0, body |-> EmptyDict]
    /\ api_tick = FALSE
    /\ api_posted = <<>>

\* The app serves one request.
ApiHandle(req) ==
    LET r == Dispatch(api_users, req) IN
    /\ api_users' = r.users
    /\ api_req' = req
    /\ api_resp' = [status |-> r.status, body |-> r.body]
    /\ api_tick' = ~api_tick
    /\ api_posted' = IF r.status = 201 THEN Append(api_posted, r.body) ELSE api_posted

\* POST /users
ApiPost(data) ==
    /\ InvalidInput(data) \/ Cardinality(DOMAIN api_users) < MaxUsers
    /\ ApiHandle(PostRequest(data))

\* GET /users/<int:user_id>
ApiGet(user_id) == ApiHandle(GetRequest(user_id))

-----------------------------------------------------------------------------
(* 6-example-testing-an-api/test_api.py: the tests, run in one process in   *)
(* any order, each at most MaxRuns times                                    *)

MaxRuns == 1

TestNames ==
    {"test_add_user", "test_get_user", "test_get_user_not_found", "test_add_invalid_user"}

tVars == <<t_cur, t_pc, t_outcome>>

\* The requests a test body sends through the client, in order.
TestRequests(t) ==
    CASE t = "test_add_user" ->
           <<PostRequest(Json([name |-> "John Doe", email |-> "john@email.com"]))>>
      [] t = "test_get_user" ->
           <<PostRequest(Json([name |-> "Bob Leck", email |-> "bob@test.com"])),
             GetRequest(2)>>
      [] t = "test_get_user_not_found" -> <<GetRequest(999)>>
      [] t = "test_add_invalid_user" -> <<PostRequest(Json([name |-> "Jane Doe"]))>>

\* What a test body asserts of its last response.
TestExpects(t) ==
    CASE t = "test_add_user" ->
           [status |-> 201,
            body |-> [id |-> 1, name |-> "John Doe", email |-> "john@email.com"]]
      [] t = "test_get_user" ->
           [status |-> 200,
            body |-> [id |-> 2, name |-> "Bob Leck", email |-> "bob@test.com"]]
      [] t = "test_get_user_not_found" ->
           [status |-> 404, body |-> [error |-> "User not found"]]
      [] t = "test_add_invalid_user" ->
           [status |-> 400, body |-> [error |-> "Invalid input"]]

TInit ==
    /\ t_cur = None
    /\ t_pc = 0
    /\ t_outcome = [t \in TestNames |-> <<>>]

\* The client fixture's setup for test t: it builds a test client and leaves users alone.
TStart(t) ==
    /\ t_cur = None
    /\ Len(t_outcome[t]) < MaxRuns
    /\ t_cur' = t
    /\ t_pc' = 1
    /\ UNCHANGED <<t_outcome, apiVars>>

\* The running test sends its next request.
TRequest ==
    /\ t_cur # None
    /\ t_pc <= Len(TestRequests(t_cur))
    /\ ApiHandle(TestRequests(t_cur)[t_pc])
    /\ t_pc' = t_pc + 1
    /\ UNCHANGED <<t_cur, t_outcome>>

\* The running test asserts the status code and the JSON of its last response, and
\* the client fixture is torn down.
TAssert ==
    /\ t_cur # None
    /\ t_pc > Len(TestRequests(t_cur))
    /\ t_outcome' = [t_outcome EXCEPT ![t_cur] =
                       Append(@, IF api_resp = TestExpects(t_cur)
                                 THEN "passed" ELSE "failed")]
    /\ t_cur' = None
    /\ t_pc' = 0
    /\ UNCHANGED apiVars

-----------------------------------------------------------------------------
(* Specifications: one per example program *)

vars == <<umVars, dbVars, fxVars, prVars, svVars, gwVars, apiVars, tVars>>

Init == UmInit /\ DbInit /\ FxInit /\ PrInit /\ SvInit /\ GwInit /\ ApiInit /\ TInit

\* Each program leaves the variables of the others alone.
UmFrame == UNCHANGED <<dbVars, fxVars, prVars, svVars, gwVars, apiVars, tVars>>
DbFrame == UNCHANGED <<umVars, fxVars, prVars, svVars, gwVars, apiVars, tVars>>
FxFrame == UNCHANGED <<umVars, dbVars, prVars, svVars, gwVars, apiVars, tVars>>
PrFrame == UNCHANGED <<umVars, dbVars, fxVars, svVars, gwVars, apiVars, tVars>>
SvFrame == UNCHANGED <<umVars, dbVars, fxVars, prVars, gwVars, apiVars, tVars>>
GwFrame == UNCHANGED <<umVars, dbVars, fxVars, prVars, svVars, apiVars, tVars>>
ApiFrame == UNCHANGED <<tVars, umVars, dbVars, fxVars, prVars, svVars, gwVars>>
TestsFrame == UNCHANGED <<umVars, dbVars, fxVars, prVars, svVars, gwVars>>

UmNext ==
    \/ \E u \in Usernames, e \in Emails : UmAddUser(u, e) /\ UmFrame
    \/ \E u \in Usernames : UmGetItem(u) /\ UmFrame

DbNext ==
    \/ \E k \in UserIds, n \in Names : DbAddUser(k, n) /\ DbFrame
    \/ \E k \in UserIds : DbGetItem(k) /\ DbFrame
    \/ \E k \in UserIds : DbDelItem(k) /\ DbFrame

FxNext ==
    \/ FxSetup /\ FxFrame
    \/ \E op \in DbOps, k \in UserIds, n \in Names : FxBodyOp(op, k, n) /\ FxFrame
    \/ FxBodyReturn /\ FxFrame
    \/ FxBodyRaise /\ FxFrame
    \/ FxTeardown /\ FxFrame

PrNext ==
    \/ \E n \in (0 - NegN)..MaxN : PrCall(n) /\ PrFrame
    \/ PrCheck /\ PrFrame
    \/ PrLoop /\ PrFrame

SvNext ==
    \/ \E n \in SvNames, a \in SvAges, f \in SvFailures : SvCall(n, a, f) /\ SvFrame
    \/ SvConnect /\ SvFrame
    \/ SvCursor /\ SvFrame
    \/ SvExecute /\ SvFrame
    \/ SvCommit /\ SvFrame
    \/ SvClose /\ SvFrame

GwNext ==
    \/ \E c \in Cities, s \in StatusCodes, b \in WeatherBodies :
           GwCall(c, [status_code |-> s, body |-> b]) /\ GwFrame
    \/ GwGet /\ GwFrame
    \/ GwStatus /\ GwFrame

ApiNext ==
    \/ \E d \in PostData : ApiPost(d) /\ ApiFrame
    \/ \E k \in GetIds : ApiGet(k) /\ ApiFrame

TestsNext ==
    \/ \E t \in TestNames : TStart(t) /\ TestsFrame
    \/ TRequest /\ TestsFrame
    \/ TAssert /\ TestsFrame

SpecUserManager == Init /\ [][UmNext]_vars
SpecDataBase == Init /\ [][DbNext]_vars
SpecFixture == Init /\ [][FxNext]_vars
SpecIsPrime == Init /\ [][PrNext]_vars
SpecSaveUser == Init /\ [][SvNext]_vars
SpecGetWeather == Init /\ [][GwNext]_vars
SpecApi == Init /\ [][ApiNext]_vars
SpecApiTests == Init /\ [][TestsNext]_vars

-----------------------------------------------------------------------------
(* Properties *)

\* C1: in any state reached by add_user calls, add_user for a username that is
\* already stored raises ValueError("User already exists") and leaves the users
\* mapping unchanged; for a username not yet stored it returns True and adds
\* exactly the entry username -> email.
C1_AddUserContract ==
    [][(um_tick' # um_tick /\ um_last'.op = "add_user") =>
         IF um_last'.username \in DOMAIN um_users
         THEN /\ um_last'.result = "ValueError: User already exists"
              /\ um_users' = um_users
         ELSE /\ um_last'.result = "True"
              /\ DOMAIN um_users' = DOMAIN um_users \cup {um_last'.username}
              /\ um_users'[um_last'.username] = um_last'.email
              /\ \A u \in DOMAIN um_users : um_users'[u] = um_users[u]]_vars

\* C1 witness: a second add_user for a stored username, with another email, was
\* rejected, and the email of the first add is still stored.
C1_Witness ==
    /\ um_last.op = "add_user"
    /\ um_last.result = "ValueError: User already exists"
    /\ um_last.username \in DOMAIN um_users
    /\ um_users[um_last.username] # um_last.email

\* C2: every valid POST returns 201 with a record whose id is the number of POSTs
\* accepted before it plus 1 and whose name and email are those of the request; a
\* later GET of that id returns 200 with exactly the record the POST returned; the
\* ids of the accepted users are 1..n.
C2_PostThenGet ==
    /\ [][(api_tick' # api_tick) =>
            /\ (api_req'.method = "POST" /\ ~InvalidInput(api_req'.data)) =>
                  /\ api_resp'.status = 201
                  /\ api_resp'.body = [id |-> Len(api_posted) + 1,
                                       name |-> api_req'.data.json.name,
                                       email |-> api_req'.data.json.email]
            /\ (api_req'.method = "GET" /\ api_req'.user_id \in 1..Len(api_posted)) =>
                  api_resp' = [status |-> 200, body |-> api_posted[api_req'.user_id]]]_vars
    /\ [](\A i \in 1..Len(api_posted) : api_posted[i].id = i)

\* C2 witness: after two accepted POSTs, a GET of id 2 returned the second record.
C2_Witness ==
    /\ Len(api_posted) >= 2
    /\ api_req.method = "GET"
    /\ api_req.user_id = 2
    /\ api_resp = [status |-> 200, body |-> api_posted[2]]

SaveUserCalls(name, age) ==
    <<[fn |-> "connect", args |-> <<"users.db">>],
      [fn |-> "cursor", args |-> <<>>],
      [fn |-> "execute", args |-> <<InsertSql, <<name, age>>>>],
      [fn |-> "commit", args |-> <<>>],
      [fn |-> "close", args |-> <<>>]>>

\* C4: when no database operation fails, save_user returns after exactly the calls
\* connect("users.db"), cursor(), execute(INSERT ..., (name, age)), commit(),
\* close(), each once and in this order; commit never happens before execute and
\* close never before commit.
C4_SaveUserSequence ==
    /\ (sv_fail.at = "none") => sv_pc # "raised"
    /\ (sv_pc = "returned") => sv_log = SaveUserCalls(sv_args.name, sv_args.age)
    /\ \A i \in 1..Len(sv_log) :
          /\ (sv_log[i].fn = "commit") => \E j \in 1..(i - 1) : sv_log[j].fn = "execute"
          /\ (sv_log[i].fn = "close") => \E j \in 1..(i - 1) : sv_log[j].fn = "commit"

\* C4 witness: save_user returned.
C4_Witness ==
    /\ sv_pc = "returned"
    /\ sv_fail.at = "none"
    /\ Len(sv_log) = 5

\* C5: when cursor.execute raises, save_user ends by raising that same error after
\* exactly one connect("users.db") and one execute call, and neither commit nor
\* close is ever called.
C5_ExecuteErrorPropagates ==
    (sv_fail.at = "execute") =>
        /\ \A i \in 1..Len(sv_log) : sv_log[i].fn \notin {"commit", "close"}
        /\ sv_pc # "returned"
        /\ (sv_pc = "raised") =>
              /\ sv_out = [kind |-> "raised", error |-> sv_fail.error]
              /\ Cardinality({i \in 1..Len(sv_log) : sv_log[i].fn = "connect"}) = 1
              /\ sv_log[1] = [fn |-> "connect", args |-> <<"users.db">>]
              /\ Cardinality({i \in 1..Len(sv_log) : sv_log[i].fn = "execute"}) = 1

\* C5 witness: execute raised and the error left save_user.
C5_Witness ==
    /\ sv_pc = "raised"
    /\ sv_fail.at = "execute"
    /\ sv_out.error = "DB write failed"

\* C6: for every test that requests db, setup builds a new empty DataBase before
\* the body runs, and the teardown step runs exactly once after the body, whether
\* it returned or raised: every body starts with an empty store, and the store is
\* empty after each test's teardown.
C6_FixtureLifecycle ==
    LET n == Len(fx_store)
        TornDown(i) == i < n \/ fx_phase = "done"
    IN /\ Len(fx_teardowns) = n
       /\ \A i \in 1..n : fx_teardowns[i] = IF TornDown(i) THEN 1 ELSE 0
       /\ \A i \in 1..n : TornDown(i) => fx_store[i] = EmptyDict
       /\ (fx_phase = "ready" /\ fx_ops = 0) => fx_store[n] = EmptyDict

\* C6 witness: a later test's body made DataBase calls and raised, and its
\* teardown has run.
C6_Witness ==
    /\ Len(fx_store) >= 2
    /\ fx_phase = "done"
    /\ fx_body = "raised"
    /\ fx_ops >= 1
    /\ fx_teardowns[Len(fx_store)] = 1

\* The last response of a test that sends the requests reqs to a store users.
RECURSIVE LastResponse(_, _, _)
LastResponse(users, reqs, resp) ==
    IF reqs = <<>>
    THEN resp
    ELSE LET r == Dispatch(users, Head(reqs))
         IN LastResponse(r.users, Tail(reqs), [status |-> r.status, body |-> r.body])

\* The outcome of test t when no other test ran before it in the process.
OutcomeAlone(t) ==
    IF LastResponse(EmptyDict, TestRequests(t), [status |-> 0, body |-> EmptyDict])
         = TestExpects(t)
    THEN "passed"
    ELSE "failed"

\* C7: the tests of test_api.py are independent of one another: each test has the
\* same outcome whichever of the other tests ran before it in the same process,
\* and in whatever order, that is, the outcome it has when it runs first.
C7_TestsIndependent ==
    \A t \in TestNames :
        \A i \in 1..Len(t_outcome[t]) : t_outcome[t][i] = OutcomeAlone(t)

\* The primes up to 25.
PrimesTo25 == {2, 3, 5, 7, 11, 13, 17, 19, 23}

\* C8: is_prime(n) returns True exactly for the primes: for n in 1..25 iff n is one
\* of 2, 3, 5, 7, 11, 13, 17, 19, 23, and for every n of the range, 0 and the
\* negative n included, iff n > 1 and no d with 2 <= d < n divides n.
C8_IsPrimeCorrect ==
    (pr_pc = "done") =>
        /\ pr_ret <=> (pr_n > 1 /\ \A d \in 2..(pr_n - 1) : pr_n % d # 0)
        /\ (pr_n \in 1..25) => (pr_ret <=> pr_n \in PrimesTo25)

\* C8 witness: is_prime(25) returned False, through the loop's last value i = 5.
C8_Witness ==
    /\ pr_pc = "done"
    /\ pr_n = 25
    /\ pr_i = 5
    /\ pr_ret = FALSE

\* C9: get_weather(city) issues exactly one requests.get call, with the URL
\* "http://api.weatherapi.com/v1/" followed by city; for status code 200 it
\* returns the response's JSON body unchanged, and for every other status code
\* it raises ValueError("City not found or API error") without reading the body.
C9_GetWeatherContract ==
    /\ Len(gw_gets) <= 1
    /\ (gw_pc = "done") =>
          /\ gw_gets = <<"http://api.weatherapi.com/v1/" \o gw_city>>
          /\ IF gw_resp.status_code = 200
             THEN gw_out = [kind |-> "returned", value |-> gw_resp.body, error |-> None]
             ELSE /\ gw_out = [kind |-> "raised", value |-> NoValue,
                               error |-> "ValueError: City not found or API error"]
                  /\ gw_json = 0

\* C9 witness: get_weather("London") returned the body of a 200 response after one
\* call with the London URL.
C9_Witness ==
    /\ gw_pc = "done"
    /\ gw_city = "London"
    /\ gw_resp = [status_code |-> 200, body |-> [temp |-> 20, condition |-> "Sunny"]]
    /\ gw_out.kind = "returned"
    /\ gw_out.value = [temp |-> 20, condition |-> "Sunny"]
    /\ gw_gets = <<"http://api.weatherapi.com/v1/London">>

\* C10: del db[k] for a stored id k removes exactly that entry, so that a
\* following lookup db[k] returns None and add_user(k, name) succeeds again; for
\* an id that is not stored it raises KeyError("User ID not found") and leaves the
\* data unchanged; a lookup never raises and never changes the data.
C10_DeleteAndLookup ==
    [][(db_tick' # db_tick) =>
         /\ (db_last'.op = "delitem" /\ db_last'.user_id \in DOMAIN db_data) =>
               /\ db_last'.raised = NoRaise
               /\ DOMAIN db_data' = DOMAIN db_data \ {db_last'.user_id}
               /\ \A k \in DOMAIN db_data' : db_data'[k] = db_data[k]
         /\ (db_last'.op = "delitem" /\ db_last'.user_id \notin DOMAIN db_data) =>
               /\ db_last'.raised = "KeyError: User ID not found"
               /\ db_data' = db_data
         /\ (db_last'.op = "getitem") =>
               /\ db_last'.raised = NoRaise
               /\ db_data' = db_data
         /\ (db_last.op = "delitem" /\ db_last.raised = NoRaise
               /\ db_last'.user_id = db_last.user_id) =>
               /\ (db_last'.op = "getitem") => db_last'.value = None
               /\ (db_last'.op = "add_user") =>
                     /\ db_last'.raised = NoRaise
                     /\ db_data'[db_last'.user_id] = db_last'.name]_vars

\* C10 witness: an entry was deleted while another entry stayed, and the deleted
\* id is gone.
C10_Witness ==
    /\ db_last.op = "delitem"
    /\ db_last.raised = NoRaise
    /\ db_last.user_id \notin DOMAIN db_data
    /\ db_data # EmptyDict

====
